---- MODULE Spec2Model ----
(***************************************************************************)
(* Model of src/Export.py: the query translator                            *)
(* normalize_command_search_to_arxiv, the paginated fetch loop of          *)
(* search_arxiv_to_dataframe and the orchestration in main.                *)
(*                                                                         *)
(* A Python str is a sequence of one-character strings.  The four          *)
(* typographic quotation marks are the characters "LDQ" (U+201C), "RDQ"    *)
(* (U+201D), "LSQ" (U+2018) and "RSQ" (U+2019).                            *)
(***************************************************************************)
EXTENDS Integers, Sequences, FiniteSets, TLC

VARIABLES pc, raw_query, arxiv_query, again, max_results, upstream,
          yielded, records, df, out_file, exit_code, called

vars == <<pc, raw_query, arxiv_query, again, max_results, upstream,
          yielded, records, df, out_file, exit_code, called>>

(***************************************************************************)
(* Bounds of the model.                                                    *)
(***************************************************************************)
MaxFrags == 3
MaxFeed == 3
MaxResults == 2

None == "None"

(***************************************************************************)
(* Characters and the character classes the code relies on.                *)
(***************************************************************************)
DQ == "\""
SQ == "'"
SP == " "
NL == "\n"
TAB == "\t"

Uppers == <<"A","B","C","D","E","F","G","H","I","J","K","L","M",
            "N","O","P","Q","R","S","T","U","V","W","X","Y","Z">>
Lowers == <<"a","b","c","d","e","f","g","h","i","j","k","l","m",
            "n","o","p","q","r","s","t","u","v","w","x","y","z">>

UpperSet == {Uppers[i] : i \in 1..26}
LowerSet == {Lowers[i] : i \in 1..26}

LowerMap == [c \in UpperSet |-> Lowers[CHOOSE i \in 1..26 : Uppers[i] = c]]
UpperMap == [c \in LowerSet |-> Uppers[CHOOSE i \in 1..26 : Lowers[i] = c]]

\* re.IGNORECASE compares characters up to letter case
LowerChar(c) == IF c \in UpperSet THEN LowerMap[c] ELSE c

\* str.upper(), character by character
UpperChar(c) == IF c \in LowerSet THEN UpperMap[c] ELSE c

upper(s) == [i \in 1..Len(s) |-> UpperChar(s[i])]

\* the class \s of re, which is also what str.strip() removes
IsSpace(c) == c \in {SP, NL, TAB}

\* the class ["\'] of the two clause patterns
IsQuote(c) == c \in {DQ, SQ}

\* the class . of re (no DOTALL flag): anything but a newline
IsDot(c) == c # NL

(***************************************************************************)
(* str.strip() and str.replace(old, new)                                   *)
(***************************************************************************)
strip(s) ==
  IF s = <<>> THEN <<>>
  ELSE LET keep == {i \in 1..Len(s) : ~IsSpace(s[i])}
       IN IF keep = {} THEN <<>>
          ELSE LET lo == CHOOSE i \in keep : \A j \in keep : i <= j
                   hi == CHOOSE i \in keep : \A j \in keep : i >= j
               IN SubSeq(s, lo, hi)

MatchAt(s, old, i) ==
  /\ i + Len(old) - 1 <= Len(s)
  /\ \A k \in 1..Len(old) : s[i + k - 1] = old[k]

\* the least element of a non-empty set of indices
Least(S) == CHOOSE j \in S : \A k \in S : j <= k

\* the occurrences are taken from left to right and do not overlap
RECURSIVE ReplaceFrom(_, _, _, _)
ReplaceFrom(s, old, new, i) ==
  LET hits == {j \in i..Len(s) : MatchAt(s, old, j)}
  IN IF hits = {} THEN SubSeq(s, i, Len(s))
     ELSE SubSeq(s, i, Least(hits) - 1) \o new
            \o ReplaceFrom(s, old, new, Least(hits) + Len(old))

replace(s, old, new) ==
  IF s = <<>> THEN <<>> ELSE ReplaceFrom(s, old, new, 1)

(***************************************************************************)
(* The steps of normalize_command_search_to_arxiv, one operator per        *)
(* statement of the function.                                              *)
(***************************************************************************)

\* s.replace(LDQ, '"').replace(RDQ, '"').replace(RSQ, "'").replace(LSQ, "'")
NormalizeQuotes(s) ==
  replace(replace(replace(replace(s, <<"LDQ">>, <<DQ>>), <<"RDQ">>, <<DQ>>),
                  <<"RSQ">>, <<SQ>>), <<"LSQ">>, <<SQ>>)

\* first index j >= i that is past the end of s or holds no whitespace
SkipSpaces(s, i) ==
  LET stops == {j \in i..Len(s) : ~IsSpace(s[j])}
  IN IF stops = {} THEN Len(s) + 1 ELSE Least(stops)

\* a variant that collapses line breaks only
SkipNewlines(s, i) ==
  LET stops == {j \in i..Len(s) : s[j] # NL}
  IN IF stops = {} THEN Len(s) + 1 ELSE Least(stops)

RECURSIVE CollapseNewlinesFrom(_, _)
CollapseNewlinesFrom(s, i) ==
  LET hits == {j \in i..Len(s) : s[j] = NL}
  IN IF hits = {} THEN SubSeq(s, i, Len(s))
     ELSE SubSeq(s, i, Least(hits) - 1) \o <<SP>>
            \o CollapseNewlinesFrom(s, SkipNewlines(s, Least(hits)))

CollapseNewlinesOnly(s) == IF s = <<>> THEN <<>> ELSE CollapseNewlinesFrom(s, 1)

\* re.sub(r'\s+', ' ', s)
RECURSIVE CollapseFrom(_, _)
CollapseFrom(s, i) ==
  LET hits == {j \in i..Len(s) : IsSpace(s[j])}
  IN IF hits = {} THEN SubSeq(s, i, Len(s))
     ELSE SubSeq(s, i, Least(hits) - 1) \o <<SP>>
            \o CollapseFrom(s, SkipSpaces(s, Least(hits)))

CollapseWhitespace(s) == IF s = <<>> THEN <<>> ELSE CollapseFrom(s, 1)

\* a variant of the list without the lower-case " or "
OperatorsWithoutOr ==
  << <<SP,"a","n","d",SP>>, <<SP,"A","n","d",SP>>, <<SP,"A","N","D",SP>>,
     <<SP,"O","r",SP>>, <<SP,"O","R",SP>>,
     <<SP,"a","n","d","n","o","t",SP>>, <<SP,"A","n","d","n","o","t",SP>>,
     <<SP,"A","N","D","N","O","T",SP>> >>

\* the list the for statement iterates over
Operators ==
  << <<SP,"a","n","d",SP>>, <<SP,"A","n","d",SP>>, <<SP,"A","N","D",SP>>,
     <<SP,"o","r",SP>>, <<SP,"O","r",SP>>, <<SP,"O","R",SP>>,
     <<SP,"a","n","d","n","o","t",SP>>, <<SP,"A","n","d","n","o","t",SP>>,
     <<SP,"A","N","D","N","O","T",SP>> >>

\* one iteration: s = s.replace(op, f" {op.strip().upper()} ")
UpperOp(s, op) == replace(s, op, <<SP>> \o upper(strip(op)) \o <<SP>>)

\* the for loop, iterations k..Len(Operators)
RECURSIVE UpperOpsFrom(_, _)
UpperOpsFrom(s, k) ==
  IF s = <<>> \/ k > Len(Operators) THEN s
  ELSE UpperOpsFrom(UpperOp(s, Operators[k]), k + 1)

UpperOps(s) == UpperOpsFrom(s, 1)

\* the literal text of both clause patterns
FieldName == <<"A","l","l",SP,"M","e","t","a","d","a","t","a">>

\* a variant without re.IGNORECASE
FieldNameAtExact(s, i) ==
  /\ i + Len(FieldName) - 1 <= Len(s)
  /\ \A k \in 1..Len(FieldName) : s[i + k - 1] = FieldName[k]

\* FieldName matches at i under re.IGNORECASE
FieldNameAt(s, i) ==
  /\ i + Len(FieldName) - 1 <= Len(s)
  /\ \A k \in 1..Len(FieldName) :
        LowerChar(s[i + k - 1]) = LowerChar(FieldName[k])

\* a variant of the templates with typographic quotation marks
ClauseReplacementCurly(phrase) ==
  <<"a","l","l",":","LDQ">> \o phrase \o <<"RDQ">>

\* the replacement templates r'all:"\3"' and r'all:"\2"'
ClauseReplacement(phrase) == <<"a","l","l",":",DQ>> \o phrase \o <<DQ>>

\* (.+?)\N from the first character p of the phrase: the index of the
\* nearest closing quote q at p+1 or later with nothing before it that .
\* does not match, 0 when there is none
PhraseEnd(s, q, p) ==
  LET ends == {k \in (p + 1)..Len(s) :
                 s[k] = q /\ \A m \in p..(k - 1) : IsDot(s[m])}
  IN IF ends = {} THEN 0 ELSE Least(ends)

\* \s*:\s*(["\'])(.+?)\N from index i: <<first index of the phrase, index
\* of the closing quote>>, <<0, 0>> when the tail does not match
ValueAt(s, i) ==
  LET c == SkipSpaces(s, i)
  IN IF c > Len(s) \/ s[c] # ":" THEN <<0, 0>>
     ELSE LET o == SkipSpaces(s, c + 1)
          IN IF o > Len(s) \/ ~IsQuote(s[o]) THEN <<0, 0>>
             ELSE LET e == PhraseEnd(s, s[o], o + 1)
                  IN IF e = 0 THEN <<0, 0>> ELSE <<o + 1, e>>

\* (["\'])All Metadata\1\s*:\s*(["\'])(.+?)\2 matched at index i
QuotedClauseAt(s, i) ==
  IF /\ IsQuote(s[i])
     /\ FieldNameAt(s, i + 1)
     /\ i + Len(FieldName) + 1 <= Len(s)
     /\ s[i + Len(FieldName) + 1] = s[i]
  THEN ValueAt(s, i + Len(FieldName) + 2)
  ELSE <<0, 0>>

\* All Metadata\s*:\s*(["\'])(.+?)\1 matched at index i
BareClauseAt(s, i) ==
  IF FieldNameAt(s, i) THEN ValueAt(s, i + Len(FieldName)) ELSE <<0, 0>>

\* re.sub(r'(["\'])All Metadata\1\s*:\s*(["\'])(.+?)\2', r'all:"\3"', s,
\*        flags=re.IGNORECASE)
RECURSIVE SubQuotedFrom(_, _)
SubQuotedFrom(s, i) ==
  LET hits == {j \in i..Len(s) : QuotedClauseAt(s, j)[2] # 0}
  IN IF hits = {} THEN SubSeq(s, i, Len(s))
     ELSE LET m == QuotedClauseAt(s, Least(hits))
          IN SubSeq(s, i, Least(hits) - 1)
               \o ClauseReplacement(SubSeq(s, m[1], m[2] - 1))
               \o SubQuotedFrom(s, m[2] + 1)

SubQuotedClauses(s) == IF s = <<>> THEN <<>> ELSE SubQuotedFrom(s, 1)

\* re.sub(r'All Metadata\s*:\s*(["\'])(.+?)\1', r'all:"\2"', s,
\*        flags=re.IGNORECASE)
RECURSIVE SubBareFrom(_, _)
SubBareFrom(s, i) ==
  LET hits == {j \in i..Len(s) : BareClauseAt(s, j)[2] # 0}
  IN IF hits = {} THEN SubSeq(s, i, Len(s))
     ELSE LET m == BareClauseAt(s, Least(hits))
          IN SubSeq(s, i, Least(hits) - 1)
               \o ClauseReplacement(SubSeq(s, m[1], m[2] - 1))
               \o SubBareFrom(s, m[2] + 1)

SubBareClauses(s) == IF s = <<>> THEN <<>> ELSE SubBareFrom(s, 1)

\* a variant that drops the parenthesis with the spaces
RECURSIVE DropOpenFrom(_, _)
DropOpenFrom(s, i) ==
  LET hits == {j \in i..(Len(s) - 1) : s[j] = "(" /\ IsSpace(s[j + 1])}
  IN IF hits = {} THEN SubSeq(s, i, Len(s))
     ELSE SubSeq(s, i, Least(hits) - 1)
            \o DropOpenFrom(s, SkipSpaces(s, Least(hits) + 1))

SubOpenParenDrop(s) == IF s = <<>> THEN <<>> ELSE DropOpenFrom(s, 1)

\* re.sub(r'\(\s+', '(', s)
RECURSIVE SubOpenFrom(_, _)
SubOpenFrom(s, i) ==
  LET hits == {j \in i..(Len(s) - 1) : s[j] = "(" /\ IsSpace(s[j + 1])}
  IN IF hits = {} THEN SubSeq(s, i, Len(s))
     ELSE SubSeq(s, i, Least(hits) - 1) \o <<"(">>
            \o SubOpenFrom(s, SkipSpaces(s, Least(hits) + 1))

SubOpenParen(s) == IF s = <<>> THEN <<>> ELSE SubOpenFrom(s, 1)

\* a variant without the substitution
SubCloseParenSkipped(s) == s

\* re.sub(r'\s+\)', ')', s)
\* \s+\) matches at j
SpacesCloseAt(s, j) ==
  /\ IsSpace(s[j])
  /\ SkipSpaces(s, j) <= Len(s)
  /\ s[SkipSpaces(s, j)] = ")"

RECURSIVE SubCloseFrom(_, _)
SubCloseFrom(s, i) ==
  LET hits == {j \in i..Len(s) : SpacesCloseAt(s, j)}
  IN IF hits = {} THEN SubSeq(s, i, Len(s))
     ELSE SubSeq(s, i, Least(hits) - 1) \o <<")">>
            \o SubCloseFrom(s, SkipSpaces(s, Least(hits)) + 1)

SubCloseParen(s) == IF s = <<>> THEN <<>> ELSE SubCloseFrom(s, 1)

\* re.sub(r'\s{2,}', ' ', s)
RECURSIVE SubDoubleFrom(_, _)
SubDoubleFrom(s, i) ==
  LET hits == {j \in i..(Len(s) - 1) : IsSpace(s[j]) /\ IsSpace(s[j + 1])}
  IN IF hits = {} THEN SubSeq(s, i, Len(s))
     ELSE SubSeq(s, i, Least(hits) - 1) \o <<SP>>
            \o SubDoubleFrom(s, SkipSpaces(s, Least(hits)))

SubDoubleSpaces(s) == IF s = <<>> THEN <<>> ELSE SubDoubleFrom(s, 1)

\* the string just before the two clause substitutions (lines 57-75)
BeforeClauses(cmd) ==
  UpperOps(CollapseWhitespace(NormalizeQuotes(strip(cmd))))

\* the two clause substitutions (lines 79 and 82)
RewriteClauses(s) == SubBareClauses(SubQuotedClauses(s))

\* the tidying after them (lines 85-89)
AfterClauses(s) == strip(SubDoubleSpaces(SubCloseParen(SubOpenParen(s))))

normalize_command_search_to_arxiv(cmd) ==
  AfterClauses(RewriteClauses(BeforeClauses(cmd)))

(***************************************************************************)
(* The texts a run may read from standard input.                           *)
(***************************************************************************)
RECURSIVE Concat(_)
Concat(ss) == IF ss = <<>> THEN <<>> ELSE Head(ss) \o Concat(Tail(ss))

LowerName == [i \in 1..Len(FieldName) |-> LowerChar(FieldName[i])]
UpperName == upper(FieldName)
MixedName == <<"a","L","L",SP,"m","E","T","A","d","a","t","a">>

FieldNames == {FieldName, LowerName, UpperName, MixedName}

\* opening and closing quotation marks that enclose a field name or a value
QuotePairs == {<<DQ, DQ>>, <<SQ, SQ>>, <<"LDQ", "RDQ">>, <<"LSQ", "RSQ">>,
               <<"LDQ", DQ>>, <<SQ, "RSQ">>}

Phrases ==
  { <<"x">>, <<"X","A","I">>, <<>>, <<SP>>, <<"a",SP,"b">>,
    <<"a",SP,SP,"b">>, <<"a",TAB,"b">>, <<"a",SP,"a","n","d",SP,"b">>,
    <<"a",SP,"O","r",SP,"b">>, <<"a",SP,"a","N","d",SP,"b">>,
    <<"a",SP,"A","N","D",SP,"b">>, <<"(",SP,"a">>, <<"a",SP,")">>,
    <<"(","a",")">>, <<"a",DQ,"b">>, <<"a",SQ,"b">>, <<"i","t","RSQ","s">>,
    <<SP,"x",SP>>, <<"a","n","d">> }

\* <q1>All Metadata<q1>:<q2>X<q2>, optionally with a space after the colon
Clause(q1, name, sep, q2, X) ==
  <<q1[1]>> \o name \o <<q1[2]>> \o sep \o <<q2[1]>> \o X \o <<q2[2]>>

ClauseInputs ==
  { Clause(q1, name, sep, q2, X) :
      q1 \in QuotePairs, name \in FieldNames, sep \in {<<":">>, <<":",SP>>},
      q2 \in QuotePairs, X \in Phrases }

Head1 == <<DQ>> \o FieldName \o <<DQ, ":">>
Head2 == LowerName \o <<":">>

Frags ==
  { <<SP>>, <<NL>>, <<TAB>>, <<"(">>, <<")">>, <<"x">>,
    <<"a","n","d">>, <<"O","r">>, <<"a","N","d">>, <<"A","N","D","N","O","T">>,
    Head1, Head2, <<DQ,"x",DQ>>, <<SQ>> }

RECURSIVE FragSeqs(_)
FragSeqs(n) ==
  IF n = 0 THEN {<<>>}
  ELSE LET shorter == FragSeqs(n - 1)
       IN shorter \cup {Append(fs, f) : fs \in shorter, f \in Frags}

TextInputs == {Concat(fs) : fs \in FragSeqs(MaxFrags)}

Txt_A_and_B_or_C ==
  <<"A",SP,"a","n","d",SP,"(","B",SP,"o","r",SP,"C",")">>

Examples ==
  { Txt_A_and_B_or_C,
    <<"a",SP,"a","n","d",SP,"a","n","d",SP,"b">>,
    <<"a",SP,"o","r",SP,"O","r",SP,"a","n","d","n","o","t",SP,"b">>,
    <<"(",SP>> \o Head1 \o <<DQ,"x",DQ,SP,")">>,
    Head1 \o <<DQ,"x",SP,SQ>> \o FieldName \o <<SQ,":",SQ,"y",SQ,SP,"z",DQ>>,
    <<"(",NL,SP>> \o Head1 \o <<DQ,"x",DQ,SP,"O","R",NL>> \o Head1
       \o <<DQ,"y",DQ,NL,")">> }

Inputs == TextInputs \cup ClauseInputs \cup Examples

(***************************************************************************)
(* The upstream results and their mapping to the rows of the table.        *)
(***************************************************************************)
\* Python's None where a str, a list or a datetime is expected
NoneVal == <<"<None>">>

IsNone(v) == Len(v) = 1 /\ v[1] = "<None>"

\* the truth value of a str, list or datetime that may be None
Truthy(v) == ~IsNone(v) /\ v # <<>>

\* v or ""
OrEmpty(v) == IF Truthy(v) THEN v ELSE <<>>

\* sep.join(items)
RECURSIVE join(_, _)
join(sep, items) ==
  IF items = <<>> THEN <<>>
  ELSE IF Len(items) = 1 THEN items[1]
  ELSE items[1] \o sep \o join(sep, Tail(items))

DigitChars == <<"0","1","2","3","4","5","6","7","8","9">>

\* str(n) for a natural number n
RECURSIVE str(_)
str(n) ==
  IF n < 10 THEN <<DigitChars[n + 1]>>
  ELSE str(n \div 10) \o <<DigitChars[(n % 10) + 1]>>

\* the i-th result the upstream service holds for the query, newest first;
\* published is <<year, month, day>>
Result(i) ==
  [ entry_id |-> <<"h",":","/","a","b","s","/">> \o str(i),
    short_id |-> str(i),
    title |-> <<"T",NL,SP>> \o str(i) \o <<SP>>,
    summary |-> IF i % 2 = 0 THEN NoneVal ELSE <<NL,"s",NL,"t">>,
    authors |-> IF i % 3 = 0 THEN <<>>
                ELSE IF i % 3 = 1 THEN << <<"A","n">>, <<"B","o">> >>
                ELSE << <<"C","y">> >>,
    published |-> IF i % 2 = 0 THEN NoneVal ELSE <<2026 - i, 1, 1>>,
    doi |-> IF i % 2 = 0 THEN NoneVal ELSE <<"1","0",".","1","/">> \o str(i),
    journal_ref |-> IF i % 3 = 1 THEN <<"J">> ELSE NoneVal,
    primary_category |-> <<"c","s">>,
    categories |-> IF i % 3 = 0 THEN <<>>
                   ELSE << <<"c","s">>, <<"l","g">> >> ]

Feed(n) == [i \in 1..n |-> Result(i)]

\* the column list of lines 155-158, which is also the key list of the dict
\* of lines 142-153
Columns ==
  <<"Title", "Abstract", "Authors", "Year", "DOI", "Journal/Conference",
    "URL", "arXiv ID", "Primary Category", "Categories">>

SemiSpace == <<";", SP>>

\* the body of the for loop, lines 119-153: the dict appended for result;
\* every upstream result has get_short_id, whose value is short_id
MakeRecord(result) ==
  LET authors == IF Truthy(result.authors)
                 THEN join(SemiSpace, result.authors) ELSE <<>>
      title == strip(replace(OrEmpty(result.title), <<NL>>, <<SP>>))
      abstract == strip(replace(OrEmpty(result.summary), <<NL>>, <<SP>>))
      year == IF Truthy(result.published)
              THEN str(result.published[1]) ELSE <<>>
      categories == IF Truthy(result.categories)
                    THEN join(SemiSpace, result.categories) ELSE <<>>
  IN ("Title" :> title) @@ ("Abstract" :> abstract)
       @@ ("Authors" :> authors) @@ ("Year" :> year)
       @@ ("DOI" :> OrEmpty(result.doi))
       @@ ("Journal/Conference" :> OrEmpty(result.journal_ref))
       @@ ("URL" :> OrEmpty(result.entry_id))
       @@ ("arXiv ID" :> result.short_id)
       @@ ("Primary Category" :> OrEmpty(result.primary_category))
       @@ ("Categories" :> categories)

\* a variant that puts the record first
PrependRecord(recs, record) == <<record>> \o recs

\* records.append(record)
AppendRecord(recs, record) == Append(recs, record)

\* how many results client.results(search) yields: the upstream hits, cut
\* off at Search.max_results
Limit == IF Len(upstream) < max_results THEN Len(upstream) ELSE max_results

\* a variant without the columns argument: the columns are those of the
\* first record
DataFrameInferred(recs) ==
  [ columns |-> IF recs = <<>> THEN <<>> ELSE Columns,
    rows |-> [i \in 1..Len(recs) |->
                [k \in 1..Len(Columns) |-> recs[i][Columns[k]]]] ]

\* pd.DataFrame.from_records(records, columns=[...])
DataFrame(recs) ==
  [ columns |-> Columns,
    rows |-> [i \in 1..Len(recs) |->
                [k \in 1..Len(Columns) |-> recs[i][Columns[k]]]] ]

NoFrame == [columns |-> <<>>, rows |-> <<>>]

\* the output path before the run: no file, or a file of an earlier run
Absent == [exists |-> FALSE, bom |-> FALSE, header |-> <<>>, rows |-> <<>>]
Stale == [exists |-> TRUE, bom |-> FALSE, header |-> <<"old">>, rows |-> <<>>]

\* df.to_csv(args.out, index=False, encoding="utf-8-sig")
to_csv(frame) ==
  [exists |-> TRUE, bom |-> TRUE, header |-> frame.columns, rows |-> frame.rows]

\* what a failed to_csv leaves at the path: the file untouched (it could not
\* be opened) or whatever was flushed before the error
FailedWrites(old, frame) ==
  {old} \cup {[exists |-> TRUE, bom |-> TRUE, header |-> <<>>, rows |-> <<>>]}

StdinSamples ==
  { <<>>, <<SP,NL>>, <<TAB>>, <<NL,NL,SP>>, Txt_A_and_B_or_C,
    <<"LDQ">> \o FieldName \o <<"RDQ",":",SP,"LSQ","X","A","I","RSQ">>,
    <<"(",NL,SP>> \o Head1 \o <<DQ,"x",DQ,SP,"O","R",NL>> \o Head1
       \o <<DQ,"y",DQ,NL,")">> }

\* a variant of the test of line 173 without strip()
IsBlankUnstripped(text) == text = <<>>

\* not raw_query.strip()
IsBlank(text) == strip(text) = <<>>

(***************************************************************************)
(* The run of main().                                                      *)
(***************************************************************************)
Init ==
  /\ pc = "main"
  /\ raw_query \in StdinSamples
  /\ arxiv_query = <<>>
  /\ again = <<>>
  /\ max_results \in 1..MaxResults
  /\ upstream \in {Feed(n) : n \in 0..MaxFeed}
  /\ yielded = 0
  /\ records = <<>>
  /\ df = NoFrame
  /\ out_file \in {Absent, Stale}
  /\ exit_code = None
  /\ called = {}

\* lines 171-175: nothing but whitespace on stdin
main_empty ==
  /\ pc = "main"
  /\ IsBlank(raw_query)
  /\ exit_code' = "1"
  /\ pc' = "exited"
  /\ UNCHANGED <<raw_query, arxiv_query, again, max_results, upstream,
                 yielded, records, df, out_file, called>>

\* lines 171-178: the query is translated
main_translate ==
  /\ pc = "main"
  /\ ~IsBlank(raw_query)
  /\ arxiv_query' = normalize_command_search_to_arxiv(raw_query)
  /\ called' = called \cup {"normalize_command_search_to_arxiv"}
  /\ pc' = "search"
  /\ UNCHANGED <<raw_query, again, max_results, upstream, yielded, records,
                 df, out_file, exit_code>>

\* lines 180 and 105-115: the client and the search are set up
search_begin ==
  /\ pc = "search"
  /\ called' = called \cup {"search_arxiv_to_dataframe"}
  /\ records' = <<>>
  /\ yielded' = 0
  /\ pc' = "results"
  /\ UNCHANGED <<raw_query, arxiv_query, again, max_results, upstream, df,
                 out_file, exit_code>>

\* lines 117-153: the client yields the next result
results_next ==
  /\ pc = "results"
  /\ yielded < Limit
  /\ yielded' = yielded + 1
  /\ records' = AppendRecord(records, MakeRecord(upstream[yielded + 1]))
  /\ UNCHANGED <<pc, raw_query, arxiv_query, again, max_results, upstream,
                 df, out_file, exit_code, called>>

\* a variant that saves what was fetched before the exception leaves main
results_raise_flushing ==
  /\ pc = "results"
  /\ pc' = "crashed"
  /\ exit_code' = "1"
  /\ out_file' = to_csv(DataFrame(records))
  /\ UNCHANGED <<raw_query, arxiv_query, again, max_results, upstream,
                 yielded, records, df, called>>

\* line 117: a page request fails for good, the exception leaves main
results_raise ==
  /\ pc = "results"
  /\ pc' = "crashed"
  /\ exit_code' = "1"
  /\ UNCHANGED <<raw_query, arxiv_query, again, max_results, upstream,
                 yielded, records, df, out_file, called>>

\* lines 155-159: the client is exhausted, the table is built
results_end ==
  /\ pc = "results"
  /\ yielded = Limit
  /\ df' = DataFrame(records)
  /\ pc' = "export"
  /\ UNCHANGED <<raw_query, arxiv_query, again, max_results, upstream,
                 yielded, records, out_file, exit_code, called>>

\* line 188: the table is written
export_csv ==
  /\ pc = "export"
  /\ out_file' = to_csv(df)
  /\ pc' = "report"
  /\ UNCHANGED <<raw_query, arxiv_query, again, max_results, upstream,
                 yielded, records, df, exit_code, called>>

\* line 188: the write fails, the exception leaves main
export_raise ==
  /\ pc = "export"
  /\ out_file' \in FailedWrites(out_file, df)
  /\ pc' = "crashed"
  /\ exit_code' = "1"
  /\ UNCHANGED <<raw_query, arxiv_query, again, max_results, upstream,
                 yielded, records, df, called>>

\* lines 189-192: the two closing messages, main returns
main_done ==
  /\ pc = "report"
  /\ exit_code' = "0"
  /\ pc' = "done"
  /\ UNCHANGED <<raw_query, arxiv_query, again, max_results, upstream,
                 yielded, records, df, out_file, called>>

Next ==
  \/ main_empty
  \/ main_translate
  \/ search_begin
  \/ results_next
  \/ results_raise
  \/ results_end
  \/ export_csv
  \/ export_raise
  \/ main_done

Spec == Init /\ [][Next]_vars

(***************************************************************************)
(* The translator on its own: it is applied to a text, then to its own     *)
(* output.                                                                 *)
(***************************************************************************)
TranslatorInit ==
  /\ pc = "unit"
  /\ raw_query \in Inputs
  /\ arxiv_query = <<>>
  /\ again = <<>>
  /\ max_results = 1
  /\ upstream = <<>>
  /\ yielded = 0
  /\ records = <<>>
  /\ df = NoFrame
  /\ out_file = Absent
  /\ exit_code = None
  /\ called = {}

translate ==
  /\ pc = "unit"
  /\ arxiv_query' = normalize_command_search_to_arxiv(raw_query)
  /\ pc' = "translated"
  /\ UNCHANGED <<raw_query, again, max_results, upstream, yielded, records,
                 df, out_file, exit_code, called>>

translate_again ==
  /\ pc = "translated"
  /\ again' = normalize_command_search_to_arxiv(arxiv_query)
  /\ pc' = "retranslated"
  /\ UNCHANGED <<raw_query, arxiv_query, max_results, upstream, yielded,
                 records, df, out_file, exit_code, called>>

TranslatorNext == translate \/ translate_again

TranslatorSpec == TranslatorInit /\ [][TranslatorNext]_vars

(***************************************************************************)
(* Vocabulary of the properties.                                           *)
(***************************************************************************)
Translated == pc \in {"translated", "retranslated"}

Contains(s, sub) == \E i \in 1..Len(s) : MatchAt(s, sub, i)

FoldCase(s) == [i \in 1..Len(s) |-> LowerChar(s[i])]

AnyQuote == {DQ, SQ, "LDQ", "RDQ", "LSQ", "RSQ"}

QuoteKind(c) ==
  IF c \in {DQ, "LDQ", "RDQ"} THEN "double"
  ELSE IF c \in {SQ, "LSQ", "RSQ"} THEN "single" ELSE "none"

\* where the value's opening quote sits in <q1>All Metadata<q1>:<q2>X<q2>
ValueStart(x) == IF x[16] = SP THEN 17 ELSE 16

\* x is one clause <q1>All Metadata<q1>:<q2>X<q2> (a space may follow the
\* colon), the quotes of each pair of the same kind, plain or typographic
ClauseShape(x) ==
  /\ Len(x) >= 17
  /\ QuoteKind(x[1]) # "none"
  /\ FoldCase(SubSeq(x, 2, 13)) = LowerName
  /\ QuoteKind(x[14]) = QuoteKind(x[1])
  /\ x[15] = ":"
  /\ Len(x) > ValueStart(x)
  /\ QuoteKind(x[ValueStart(x)]) # "none"
  /\ QuoteKind(x[Len(x)]) = QuoteKind(x[ValueStart(x)])

PhraseOf(x) == SubSeq(x, ValueStart(x) + 1, Len(x) - 1)

AllClause(X) == <<"a","l","l",":",DQ>> \o X \o <<DQ>>

ConnectiveWords ==
  { <<"a","n","d">>, <<"o","r">>, <<"a","n","d","n","o","t">> }

\* a connective word between two spaces at i that is not in upper case
LowSpacedAt(s, i) ==
  \E w \in ConnectiveWords :
    /\ i + Len(w) + 1 <= Len(s)
    /\ s[i] = SP
    /\ s[i + Len(w) + 1] = SP
    /\ FoldCase(SubSeq(s, i + 1, i + Len(w))) = w
    /\ SubSeq(s, i + 1, i + Len(w)) # upper(w)

HasLowSpaced(s) == \E i \in 1..Len(s) : LowSpacedAt(s, i)

Capitalized(w) == <<UpperChar(w[1])>> \o Tail(w)

\* a phrase that no step of the translator touches
PlainPhrase(X) ==
  /\ X # <<>>
  /\ \A i \in 1..Len(X) : X[i] \notin AnyQuote /\ X[i] \notin {NL, TAB}
  /\ ~Contains(X, <<SP, SP>>)
  /\ ~Contains(X, <<"(", SP>>)
  /\ ~Contains(X, <<SP, ")">>)
  /\ \A w \in ConnectiveWords :
       /\ ~Contains(X, <<SP>> \o w \o <<SP>>)
       /\ ~Contains(X, <<SP>> \o Capitalized(w) \o <<SP>>)

\* C1 as stated: a clause <q1>All Metadata<q1>:<q2>X<q2>, in any supported
\* quoting and any letter case of the field name, translates to all:"X"
\* with X unchanged, for every phrase X
C1_AnyPhrase ==
  (Translated /\ ClauseShape(raw_query))
    => arxiv_query = AllClause(PhraseOf(raw_query))

\* C1 amended: a clause <q1>All Metadata<q1>:<q2>X<q2>, in any supported
\* quoting and any letter case of the field name, translates to all:"X"
\* with X unchanged, provided X is not empty and holds no quotation mark, no
\* whitespace other than single spaces, no space after "(" or before ")",
\* and no lower-case or Capitalized connective between spaces
C1_PlainPhrase ==
  (Translated /\ ClauseShape(raw_query) /\ PlainPhrase(PhraseOf(raw_query)))
    => arxiv_query = AllClause(PhraseOf(raw_query))

\* the example of the specification: typographic double quotes around a
\* field name in upper case, typographic single quotes around XAI
C1_Witness ==
  /\ pc = "translated"
  /\ raw_query = <<"LDQ">> \o UpperName \o <<"RDQ",":",SP,"LSQ","X","A","I","RSQ">>
  /\ arxiv_query = <<"a","l","l",":",DQ,"X","A","I",DQ>>

\* the field name, in any letter case, occurs in s
HasFieldName(s) ==
  \E i \in 1..Len(s) :
    /\ i + 11 <= Len(s)
    /\ FoldCase(SubSeq(s, i, i + 11)) = LowerName

\* C2 as stated: for every input, translating the translation changes no
\* clause: the two agree up to the letter case of the connectives
C2_Idempotent ==
  pc = "retranslated" => FoldCase(again) = FoldCase(arxiv_query)

\* C2 amended: for every input whose translation holds no field name
\* "All Metadata" any more, translating the translation changes no clause:
\* the two agree up to the letter case of the connectives
C2_IdempotentNoFieldName ==
  (pc = "retranslated" /\ ~HasFieldName(arxiv_query))
    => FoldCase(again) = FoldCase(arxiv_query)

\* a text with a clause is translated twice; the clause was rewritten the
\* first time and is left alone the second time
C2_Witness ==
  /\ pc = "retranslated"
  /\ HasFieldName(raw_query)
  /\ ~HasFieldName(arxiv_query)
  /\ Contains(arxiv_query, <<"a","l","l",":",DQ,"x",DQ>>)
  /\ again = arxiv_query

\* the text the connective loop works on
Collapsed(x) == CollapseWhitespace(NormalizeQuotes(strip(x)))

\* a connective between spaces in a letter case the code does not list
HasMixedCase(s) ==
  \E i \in 1..Len(s) : \E w \in ConnectiveWords :
    /\ i + Len(w) + 1 <= Len(s)
    /\ s[i] = SP
    /\ s[i + Len(w) + 1] = SP
    /\ FoldCase(SubSeq(s, i + 1, i + Len(w))) = w
    /\ SubSeq(s, i + 1, i + Len(w)) \notin {w, Capitalized(w), upper(w)}

\* a lower-case or Capitalized connective directly followed by the same
\* word in the same case, one space between them
HasDoubled(s) ==
  \E w \in ConnectiveWords : \E v \in {w, Capitalized(w)} :
    Contains(s, <<SP>> \o v \o <<SP>> \o v \o <<SP>>)

A_AND_B_OR_C ==
  <<"A",SP,"A","N","D",SP,"(","B",SP,"O","R",SP,"C",")">>

WordEnd(s, i) ==
  LET stops == {j \in i..Len(s) : IsSpace(s[j]) \/ s[j] \in {"(", ")"}}
  IN IF stops = {} THEN Len(s) + 1 ELSE Least(stops)

RECURSIVE SkeletonFrom(_, _)
SkeletonFrom(s, i) ==
  IF i > Len(s) THEN <<>>
  ELSE IF s[i] \in {"(", ")"} THEN << <<s[i]>> >> \o SkeletonFrom(s, i + 1)
  ELSE IF IsSpace(s[i]) THEN SkeletonFrom(s, SkipSpaces(s, i))
  ELSE LET j == WordEnd(s, i)
           w == SubSeq(s, i, j - 1)
       IN IF FoldCase(w) \in ConnectiveWords
          THEN <<upper(w)>> \o SkeletonFrom(s, j)
          ELSE SkeletonFrom(s, j)

Skeleton(s) == SkeletonFrom(s, 1)

C9_ParenSpacing ==
  Translated =>
    \A i \in 1..(Len(arxiv_query) - 1) :
      /\ arxiv_query[i] = "(" => ~IsSpace(arxiv_query[i + 1])
      /\ arxiv_query[i + 1] = ")" => ~IsSpace(arxiv_query[i])

\* "( <clause> )" was translated
C9_Witness ==
  /\ pc = "translated"
  /\ raw_query = <<"(",SP>> \o Head1 \o <<DQ,"x",DQ,SP,")">>
  /\ arxiv_query = <<"(","a","l","l",":",DQ,"x",DQ,")">>

\* C10: for every input, the output holds no newline and no tab, no two
\* spaces in a row, and neither starts nor ends with whitespace
C10_SingleLine ==
  Translated =>
    /\ \A i \in 1..Len(arxiv_query) : arxiv_query[i] \notin {NL, TAB}
    /\ ~Contains(arxiv_query, <<SP, SP>>)
    /\ arxiv_query # <<>> =>
         ~IsSpace(arxiv_query[1]) /\ ~IsSpace(arxiv_query[Len(arxiv_query)])

\* a text with a tab, a line break and a space in a row was translated
C10_Witness ==
  /\ pc = "translated"
  /\ Contains(raw_query, <<"x",TAB,NL>>)
  /\ IsSpace(raw_query[Len(raw_query)])
  /\ arxiv_query = <<"x">>

\* only whitespace was read from standard input
OnlyWhitespace == \A i \in 1..Len(raw_query) : raw_query[i] \in {SP, NL, TAB}

\* C5: when standard input holds only whitespace (or nothing), main ends
\* with exit status 1, the translator and the fetcher are never called, and
\* the output file is neither created nor overwritten
C5_EmptyInputExits ==
  /\ [](OnlyWhitespace =>
          /\ called = {}
          /\ pc \in {"main", "exited"}
          /\ (pc = "exited" <=> exit_code = "1")
          /\ exit_code \in {None, "1"})
  /\ [][OnlyWhitespace => out_file' = out_file]_vars

\* a run on whitespace-only input ended; the file of an earlier run is as
\* it was
C5_Witness ==
  /\ pc = "exited"
  /\ raw_query = <<SP, NL>>
  /\ exit_code = "1"
  /\ out_file = Stale

\* C6: the output file is written only once the fetch has delivered all
\* its results and the table is built; when the client fails, on the first
\* page or after any number of records, the run ends with a non-zero exit
\* status and the output file is left as it was, for good
C6_NoFileOnFetchError ==
  /\ [][out_file' # out_file =>
          /\ pc = "export"
          /\ yielded = Limit
          /\ df = DataFrame(records)]_vars
  /\ [][(pc = "results" /\ pc' = "crashed") =>
          /\ out_file' = out_file
          /\ exit_code' = "1"]_vars
  /\ [][pc = "crashed" => (pc' = "crashed" /\ out_file' = out_file)]_vars

\* the client failed after two records were collected; there is no file
C6_Witness ==
  /\ pc = "crashed"
  /\ Len(records) = 2
  /\ df = NoFrame
  /\ out_file = Absent

\* C7: when the fetch ends without a single result, the output file is
\* written all the same and holds the header row of the ten columns Title,
\* Abstract, Authors, Year, DOI, Journal/Conference, URL, arXiv ID, Primary
\* Category, Categories, in this order, and no data row
C7_HeaderOnly ==
  (pc \in {"report", "done"} /\ yielded = 0) =>
    /\ out_file.exists
    /\ out_file.header =
         <<"Title", "Abstract", "Authors", "Year", "DOI",
           "Journal/Conference", "URL", "arXiv ID", "Primary Category",
           "Categories">>
    /\ out_file.rows = <<>>

\* a run whose query has no hit upstream ended with exit status 0 and
\* replaced the file of an earlier run
C7_Witness ==
  /\ pc = "done"
  /\ upstream = <<>>
  /\ exit_code = "0"
  /\ out_file.exists
  /\ out_file.bom
  /\ out_file.rows = <<>>

\* C8: the records collected so far are, one for one and in the same order,
\* the results the client has yielded, never more than max_results; the
\* table returned holds exactly these records in that order
C8_OneRecordPerResult ==
  /\ Len(records) = yielded
  /\ Len(records) <= max_results
  /\ \A i \in 1..Len(records) : records[i]["URL"] = upstream[i].entry_id
  /\ pc \in {"export", "report", "done"} =>
       /\ Len(df.rows) = Len(records)
       /\ Len(df.rows) <= max_results
       /\ \A i \in 1..Len(df.rows) : df.rows[i][7] = upstream[i].entry_id

\* upstream holds three results, max_results is two: the table returned has
\* the first two
C8_Witness ==
  /\ pc = "export"
  /\ Len(upstream) = 3
  /\ max_results = 2
  /\ Len(df.rows) = 2
  /\ df.rows[2][7] = upstream[2].entry_id

====
